---- MODULE Spec2Model ----
(***************************************************************************)
(* companion-service: the SERVICES registry, the name-addressed lifecycle  *)
(* functions start/stop/restart, and the ctor/dtor hooks init/deinit       *)
(* (src/src/lib.rs), with the counter service of tests/sanity.rs as the    *)
(* registered Service implementation.                                      *)
(*                                                                         *)
(* Every `for service in SERVICES` loop is modelled one iteration per      *)
(* step; the default Service::restart is two steps (stop, then start).     *)
(*                                                                         *)
(* Spec      main thread only, counter services that always return         *)
(* SpecLive  Spec with weak fairness of the calling thread's steps         *)
(* SpecFail  Spec plus service methods that may panic                      *)
(* SpecConc  Spec plus a worker thread and a teardown that races with it   *)
(***************************************************************************)
EXTENDS Integers, Sequences, FiniteSets, TLC

\* ---------------------------------------------------------------- bounds
MaxEntries == 2          \* longest registry explored
MaxCalls == 3            \* manual start/stop/restart calls made by main

\* ------------------------------------------------------------- constants
TEST_SERVICE_NAME == "test service"
OtherName == "other"
Names == {TEST_SERVICE_NAME, OtherName}

MainThread == "main"          \* runs the hooks and main
WorkerThread == "worker"      \* a thread spawned by main
Threads == {MainThread, WorkerThread}

ApiOps == {"start", "stop", "restart"}

VARIABLES
    SERVICES,   \* the distributed slice: sequence of entries, each given by its name()
    count,      \* count[i]: start_stop_count of entry i
    nStart,     \* nStart[i]: number of Service::start invocations on entry i
    nStop,      \* nStop[i]: number of Service::stop invocations on entry i
    phase,      \* "load" | "ctor" | "main" | "dtor" | "exited"
    frame,      \* frame[t]: the lifecycle function thread t is in (or last returned from)
    history     \* manual calls made so far, in order: <<op, name>>

vars == <<SERVICES, count, nStart, nStop, phase, frame, history>>

\* ------------------------------------------------------------ registry
RECURSIVE SeqsUpTo(_, _)
SeqsUpTo(S, n) ==
    IF n = 0 THEN {<<>>}
    ELSE LET shorter == SeqsUpTo(S, n - 1)
         IN shorter \cup {Append(s, x) : s \in {q \in shorter : Len(q) = n - 1}, x \in S}

Registries == SeqsUpTo(Names, MaxEntries)

Entries == 1..Len(SERVICES)

\* service.name() of entry i
name(i) == SERVICES[i]

\* ----------------------------------------------- the counter service
TestServiceNew == 0

ServiceStartTwice(c) == c + 2
ServiceStart(c) == c + 1

ServiceStopSaturating(c) == IF c > 0 THEN c - 1 ELSE c
ServiceStop(c) == c - 1

\* ------------------------------------------------ Service::restart
RestartFirstIsStart == "start"
RestartFirst == "stop"

RestartSecondIsStop == "stop"
RestartSecond == "start"

\* ------------------------------------------------ loop conditions
MatchesAny(i, n) == TRUE
MatchesFirstOnly(i, n) == name(i) = n /\ \A j \in 1..(i - 1) : name(j) # n
\* `if service.name() == name`
Matches(i, n) == name(i) = n

InitSelectsUniqueNames(i) == \A j \in 1..(i - 1) : name(j) # name(i)
\* init starts every entry unconditionally
InitSelects(i) == TRUE

DeinitSelectsRunning(i) == count[i] > 0
\* deinit stops every entry unconditionally
DeinitSelects(i) == TRUE

\* `for service in SERVICES` borrows the slice: iterating leaves it as it is
IteratedTakingLast(reg, i) == SubSeq(reg, 1, Len(reg) - 1)
Iterated(reg, i) == reg

\* the slice iterator moves to the next entry
AdvanceSkipping(i) == i + 2
Advance(i) == i + 1

\* fetch_add / fetch_sub read the counter in the same atomic step that writes it
LoadedAtEntry(t, i) == frame[t].before[i]
Loaded(t, i) == count[i]

IdleFrame ==
    [op |-> "none", name |-> "", i |-> 0, pc |-> "idle", log |-> <<>>, before |-> <<>>,
     failed |-> 0]

\* entry of a lifecycle function: the iterator is at the first entry
EnterFrame(op, n) ==
    [op |-> op, name |-> n, i |-> 1, pc |-> "loop", log |-> <<>>, before |-> count,
     failed |-> 0]

Init ==
    /\ SERVICES \in Registries
    /\ count = [i \in 1..Len(SERVICES) |-> TestServiceNew]
    /\ nStart = [i \in 1..Len(SERVICES) |-> 0]
    /\ nStop = [i \in 1..Len(SERVICES) |-> 0]
    /\ phase = "load"
    /\ frame = [t \in Threads |-> IdleFrame]
    /\ history = <<>>

\* ------------------------------------------- invoking a service method
\* thread t calls method m ("start" | "stop") of entry i
Invoke(t, i, m) ==
    /\ count' = [count EXCEPT ![i] = IF m = "start" THEN ServiceStart(Loaded(t, i))
                                                     ELSE ServiceStop(Loaded(t, i))]
    /\ nStart' = [nStart EXCEPT ![i] = IF m = "start" THEN @ + 1 ELSE @]
    /\ nStop' = [nStop EXCEPT ![i] = IF m = "stop" THEN @ + 1 ELSE @]

Logged(t, i, m) == Append(frame[t].log, <<m, i>>)

InLoop(t, op) ==
    /\ frame[t].op = op
    /\ frame[t].pc = "loop"
    /\ frame[t].i <= Len(SERVICES)

\* one iteration of a loop whose body is a single method call on selected entries
Iterate(t, selected, m) ==
    LET i == frame[t].i IN
    /\ SERVICES' = Iterated(SERVICES, i)
    /\ IF selected
       THEN /\ Invoke(t, i, m)
            /\ frame' = [frame EXCEPT ![t].i = Advance(i), ![t].log = Logged(t, i, m)]
       ELSE /\ frame' = [frame EXCEPT ![t].i = Advance(i)]
            /\ UNCHANGED <<count, nStart, nStop>>

\* ------------------------------------------------------------ start
start_call(t, n) ==
    /\ phase = "main"
    /\ frame[t].pc \in {"idle", "returned"}
    /\ Len(history) < MaxCalls
    /\ frame' = [frame EXCEPT ![t] = EnterFrame("start", n)]
    /\ history' = Append(history, <<"start", n>>)
    /\ UNCHANGED <<SERVICES, count, nStart, nStop, phase>>

start_step(t) ==
    /\ InLoop(t, "start")
    /\ Iterate(t, Matches(frame[t].i, frame[t].name), "start")
    /\ UNCHANGED <<phase, history>>

\* ------------------------------------------------------------- stop
stop_call(t, n) ==
    /\ phase = "main"
    /\ frame[t].pc \in {"idle", "returned"}
    /\ Len(history) < MaxCalls
    /\ frame' = [frame EXCEPT ![t] = EnterFrame("stop", n)]
    /\ history' = Append(history, <<"stop", n>>)
    /\ UNCHANGED <<SERVICES, count, nStart, nStop, phase>>

stop_step(t) ==
    /\ InLoop(t, "stop")
    /\ Iterate(t, Matches(frame[t].i, frame[t].name), "stop")
    /\ UNCHANGED <<phase, history>>

\* ---------------------------------------------------------- restart
restart_call(t, n) ==
    /\ phase = "main"
    /\ frame[t].pc \in {"idle", "returned"}
    /\ Len(history) < MaxCalls
    /\ frame' = [frame EXCEPT ![t] = EnterFrame("restart", n)]
    /\ history' = Append(history, <<"restart", n>>)
    /\ UNCHANGED <<SERVICES, count, nStart, nStop, phase>>

\* loop test, and for a matching entry the first half of Service::restart
restart_step(t) ==
    /\ InLoop(t, "restart")
    /\ LET i == frame[t].i IN
       IF Matches(i, frame[t].name)
       THEN /\ Invoke(t, i, RestartFirst)
            /\ frame' = [frame EXCEPT ![t].pc = "restarting",
                                      ![t].log = Logged(t, i, RestartFirst)]
       ELSE /\ frame' = [frame EXCEPT ![t].i = Advance(i)]
            /\ UNCHANGED <<count, nStart, nStop>>
    /\ SERVICES' = Iterated(SERVICES, frame[t].i)
    /\ UNCHANGED <<phase, history>>

\* second half of Service::restart, then on to the next entry
restart_finish(t) ==
    /\ frame[t].op = "restart"
    /\ frame[t].pc = "restarting"
    /\ LET i == frame[t].i IN
       /\ Invoke(t, i, RestartSecond)
       /\ frame' = [frame EXCEPT ![t].pc = "loop", ![t].i = Advance(i),
                                 ![t].log = Logged(t, i, RestartSecond)]
    /\ UNCHANGED <<SERVICES, phase, history>>

\* the loop of start/stop/restart is exhausted: the function returns ()
api_return(t) ==
    /\ frame[t].op \in ApiOps
    /\ frame[t].pc = "loop"
    /\ frame[t].i > Len(SERVICES)
    /\ frame' = [frame EXCEPT ![t].pc = "returned"]
    /\ UNCHANGED <<SERVICES, count, nStart, nStop, phase, history>>

\* ------------------------------------------------------- init (#[ctor])
init_call ==
    /\ phase = "load"
    /\ phase' = "ctor"
    /\ frame' = [frame EXCEPT ![MainThread] = EnterFrame("init", "")]
    /\ UNCHANGED <<SERVICES, count, nStart, nStop, history>>

init_step ==
    /\ phase = "ctor"
    /\ InLoop(MainThread, "init")
    /\ Iterate(MainThread, InitSelects(frame[MainThread].i), "start")
    /\ UNCHANGED <<phase, history>>

\* init returns and main begins
init_return ==
    /\ phase = "ctor"
    /\ frame[MainThread].op = "init"
    /\ frame[MainThread].pc = "loop"
    /\ frame[MainThread].i > Len(SERVICES)
    /\ frame' = [frame EXCEPT ![MainThread].pc = "returned"]
    /\ phase' = "main"
    /\ UNCHANGED <<SERVICES, count, nStart, nStop, history>>

\* ----------------------------------------------------- deinit (#[dtor])
\* main has returned (no lifecycle call in progress): the destructor runs
deinit_call ==
    /\ phase = "main"
    /\ \A t \in Threads : frame[t].pc \in {"idle", "returned"}
    /\ phase' = "dtor"
    /\ frame' = [frame EXCEPT ![MainThread] = EnterFrame("deinit", "")]
    /\ UNCHANGED <<SERVICES, count, nStart, nStop, history>>

deinit_step ==
    /\ phase = "dtor"
    /\ InLoop(MainThread, "deinit")
    /\ Iterate(MainThread, DeinitSelects(frame[MainThread].i), "stop")
    /\ UNCHANGED <<phase, history>>

deinit_return ==
    /\ phase = "dtor"
    /\ frame[MainThread].op = "deinit"
    /\ frame[MainThread].pc = "loop"
    /\ frame[MainThread].i > Len(SERVICES)
    /\ frame' = [frame EXCEPT ![MainThread].pc = "returned"]
    /\ phase' = "exited"
    /\ UNCHANGED <<SERVICES, count, nStart, nStop, history>>

\* ------------------------------------------------------ specification
Next ==
    \/ init_call
    \/ init_step
    \/ init_return
    \/ \E n \in Names : start_call(MainThread, n)
    \/ start_step(MainThread)
    \/ \E n \in Names : stop_call(MainThread, n)
    \/ stop_step(MainThread)
    \/ \E n \in Names : restart_call(MainThread, n)
    \/ restart_step(MainThread)
    \/ restart_finish(MainThread)
    \/ api_return(MainThread)
    \/ deinit_call
    \/ deinit_step
    \/ deinit_return

Spec == Init /\ [][Next]_vars

\* ------------------------------------------- a service method that fails
\* whether the loop of thread t's function acts on the entry it is at
Selected(t) ==
    LET i == frame[t].i IN
    CASE frame[t].op \in ApiOps  -> Matches(i, frame[t].name)
      [] frame[t].op = "init"    -> InitSelects(i)
      [] frame[t].op = "deinit"  -> DeinitSelects(i)
      [] OTHER                   -> FALSE

\* the method thread t's function calls next on the entry it is at
Method(t) ==
    CASE frame[t].op \in {"start", "init"}  -> "start"
      [] frame[t].op \in {"stop", "deinit"} -> "stop"
      [] OTHER -> IF frame[t].pc = "restarting" THEN RestartSecond ELSE RestartFirst

PropagatedCaught(fr, i) == [fr EXCEPT !.pc = "loop", !.i = i + 1, !.failed = i]
\* no function catches a panic of service.start() / service.stop(): it unwinds
\* out of the `for` loop and out of the function
Propagated(fr, i) == [fr EXCEPT !.pc = "panicked", !.failed = i]

\* the method called on the current entry panics, before or after its effect
service_panics(t) ==
    /\ \/ frame[t].pc = "loop" /\ frame[t].i <= Len(SERVICES) /\ Selected(t)
       \/ frame[t].pc = "restarting"
    /\ LET i == frame[t].i
           m == Method(t)
       IN /\ \/ Invoke(t, i, m)
             \/ /\ nStart' = [nStart EXCEPT ![i] = IF m = "start" THEN @ + 1 ELSE @]
                /\ nStop' = [nStop EXCEPT ![i] = IF m = "stop" THEN @ + 1 ELSE @]
                /\ UNCHANGED count
          /\ frame' = [frame EXCEPT
                          ![t] = Propagated([frame[t] EXCEPT !.log = Logged(t, i, m)], i)]
    /\ UNCHANGED <<SERVICES, phase, history>>

\* a panic of a manual call unwinds main; where the build unwinds (rather than
\* aborts) the process then exits through the destructors
deinit_after_panic ==
    /\ phase = "main"
    /\ frame[MainThread].pc = "panicked"
    /\ phase' = "dtor"
    /\ frame' = [frame EXCEPT ![MainThread] = EnterFrame("deinit", "")]
    /\ UNCHANGED <<SERVICES, count, nStart, nStop, history>>

NextFail ==
    \/ Next
    \/ service_panics(MainThread)
    \/ deinit_after_panic

\* services whose start() / stop() may fail
SpecFail == Init /\ [][NextFail]_vars

\* the steps a thread takes while it is inside a lifecycle function
Run(t) ==
    \/ start_step(t)
    \/ stop_step(t)
    \/ restart_step(t)
    \/ restart_finish(t)
    \/ api_return(t)

RunHook ==
    \/ init_step
    \/ init_return
    \/ deinit_step
    \/ deinit_return

\* the calling thread keeps running: nothing in a lifecycle function blocks or yields
SpecLive == Init /\ [][Next]_vars /\ WF_vars(Run(MainThread)) /\ WF_vars(RunHook)

\* ------------------------------------------------------ a second thread
UnlockedUnlessRestarting(t) == \A u \in Threads \ {t} : frame[u].pc # "restarting"
\* no function takes a lock: a thread's step never waits for another thread
Unlocked(t) == TRUE

\* the worker runs for as long as the process exists
worker_run ==
    /\ phase # "exited"
    /\ Unlocked(WorkerThread)
    /\ Run(WorkerThread)

\* main returns while the worker is still inside a lifecycle function: the
\* destructor runs on the main thread beside it
deinit_race ==
    /\ phase = "main"
    /\ frame[MainThread].pc \in {"idle", "returned"}
    /\ frame[WorkerThread].pc \in {"loop", "restarting"}
    /\ phase' = "dtor"
    /\ frame' = [frame EXCEPT ![MainThread] = EnterFrame("deinit", "")]
    /\ UNCHANGED <<SERVICES, count, nStart, nStop, history>>

NextConc ==
    \/ Next
    \/ (frame[WorkerThread].pc = "idle" /\ \E n \in Names : start_call(WorkerThread, n))
    \/ (frame[WorkerThread].pc = "idle" /\ \E n \in Names : stop_call(WorkerThread, n))
    \/ (frame[WorkerThread].pc = "idle" /\ \E n \in Names : restart_call(WorkerThread, n))
    \/ worker_run
    \/ deinit_race

\* main and one worker thread calling the lifecycle functions side by side;
\* the worker's body is a single lifecycle call, main makes any number of them
SpecConc == Init /\ [][NextConc]_vars

TypeOK ==
    /\ SERVICES \in Registries
    /\ phase \in {"load", "ctor", "main", "dtor", "exited"}
    /\ \A i \in Entries : count[i] \in Int /\ nStart[i] \in Nat /\ nStop[i] \in Nat
    /\ \A t \in Threads :
          frame[t].pc \in {"idle", "loop", "restarting", "returned", "panicked"}
    /\ Len(history) <= MaxCalls

\* ---------------------------------------------------- observation helpers
\* frame of the thread that runs the hooks and main
F == frame[MainThread]

Returned == F.pc = "returned"

MatchingEntries(n) == {i \in Entries : name(i) = n}

\* the calls made by a traversal that applies `body` (a sequence of methods)
\* to each entry of S, entry after entry in registry order, starting at entry i
RECURSIVE ExpectedFrom(_, _, _)
ExpectedFrom(i, S, body) ==
    IF i > Len(SERVICES) THEN <<>>
    ELSE (IF i \in S THEN [k \in 1..Len(body) |-> <<body[k], i>>] ELSE <<>>)
         \o ExpectedFrom(i + 1, S, body)

IsPrefix(s, r) == Len(s) <= Len(r) /\ SubSeq(r, 1, Len(s)) = s

\* number of manual calls op(n) made so far
Manual(op, n) == Cardinality({k \in 1..Len(history) : history[k] = <<op, n>>})

\* ------------------------------------------------------------------ C1
\* C1 (bootstrap): once init has returned and before any manual call, every
\* registry entry, entries sharing a name included, has had start() called
\* exactly once and stop() not at all.
C1_Bootstrap ==
    (phase = "main" /\ history = <<>>) =>
        /\ F.op = "init" /\ Returned
        /\ \A i \in Entries : nStart[i] = 1 /\ nStop[i] = 0

C1_Witness ==
    /\ phase = "main" /\ history = <<>>
    /\ Len(SERVICES) = 2 /\ name(1) = name(2)
    /\ nStart[1] = 1 /\ nStart[2] = 1

\* ------------------------------------------------------------------ C2
\* C2 (teardown): whatever manual calls were made, deinit calls stop() exactly
\* once on every entry in registry order, whatever the entry's name or
\* counter; an entry already stopped by hand is stopped again.
C2_Teardown ==
    /\ phase = "dtor" =>
          /\ F.op = "deinit"
          /\ F.log = [k \in 1..(F.i - 1) |-> <<"stop", k>>]
    /\ phase = "exited" =>
          /\ F.op = "deinit" /\ Returned
          /\ F.log = [k \in 1..Len(SERVICES) |-> <<"stop", k>>]
          /\ \A i \in Entries : count[i] = F.before[i] - 1

C2_Witness ==
    /\ phase = "exited"
    /\ Len(SERVICES) = 2 /\ name(1) # name(2)
    /\ \E i \in Entries : F.before[i] <= 0 /\ count[i] < 0 /\ nStop[i] >= 2
    /\ Len(F.log) = 2

\* ------------------------------------------------------------------ C3
\* C3 (name filtering): during and after start(X), stop(X) or restart(X) the
\* only entries a method was invoked on are those named X, and every entry
\* with another name has the counter it had when the call began.
C3_NameFiltering ==
    F.op \in ApiOps =>
        /\ \A k \in 1..Len(F.log) : name(F.log[k][2]) = F.name
        /\ \A i \in Entries : name(i) # F.name => count[i] = F.before[i]

C3_Witness ==
    /\ F.op = "start" /\ Returned
    /\ \E i, j \in Entries :
          /\ name(i) = F.name /\ name(j) # F.name
          /\ count[i] = F.before[i] + 1
          /\ count[j] = F.before[j]

\* ------------------------------------------------------------------ C4
\* C4 (restart composition): when restart(name) has returned, the counter of
\* every entry, matching or not, is what it was when the call began.
C4_RestartComposition ==
    (F.op = "restart" /\ Returned) => count = F.before

C4_Witness ==
    /\ F.op = "restart" /\ Returned
    /\ \E i \in Entries : name(i) = F.name /\ F.before[i] < 0 /\ count[i] = F.before[i]
    /\ F.log # <<>>

\* ------------------------------------------------------------------ C5
\* C5 (end-to-end scenario): with the single counter service "test service",
\* the counter is 1 after load, 0 after stop, 1 after start, 1 after restart
\* and 0 after the unload hook.
Scenario ==
    << <<"stop", TEST_SERVICE_NAME>>, <<"start", TEST_SERVICE_NAME>>,
       <<"restart", TEST_SERVICE_NAME>> >>

C5_EndToEnd ==
    SERVICES = <<TEST_SERVICE_NAME>> =>
        /\ (phase = "main" /\ Returned /\ history = <<>>) => count[1] = 1
        /\ (phase = "main" /\ Returned /\ history = SubSeq(Scenario, 1, 1)) => count[1] = 0
        /\ (phase = "main" /\ Returned /\ history = SubSeq(Scenario, 1, 2)) => count[1] = 1
        /\ (phase = "main" /\ Returned /\ history = Scenario) => count[1] = 1
        /\ (phase = "exited" /\ history = Scenario) => count[1] = 0

C5_Witness ==
    /\ SERVICES = <<TEST_SERVICE_NAME>>
    /\ history = Scenario
    /\ phase = "exited"
    /\ count[1] = 0

\* ------------------------------------------------------------------ C6
\* C6 (complete in-order traversal): when start(name) returns it has invoked
\* start() exactly once on each entry named `name`, in registry order, none
\* skipped; stop(name) likewise with stop().
C6_Traversal ==
    /\ (F.op = "start" /\ Returned) =>
          F.log = ExpectedFrom(1, MatchingEntries(F.name), <<"start">>)
    /\ (F.op = "stop" /\ Returned) =>
          F.log = ExpectedFrom(1, MatchingEntries(F.name), <<"stop">>)

C6_Witness ==
    /\ F.op = "start" /\ Returned
    /\ Len(SERVICES) = 2 /\ name(1) = F.name /\ name(2) = F.name
    /\ F.log = << <<"start", 1>>, <<"start", 2>> >>

\* ------------------------------------------------------------------ C7
\* C7 (no match is a no-op): a start/stop/restart whose name matches no entry
\* invokes nothing, changes no counter and returns; with an empty registry
\* the hooks invoke nothing either.
C7_NoMatchNoOp ==
    /\ (F.op \in ApiOps /\ MatchingEntries(F.name) = {}) =>
          /\ F.log = <<>>
          /\ count = F.before
          /\ F.pc \in {"loop", "returned"}
    /\ SERVICES = <<>> => (F.log = <<>> /\ F.pc \in {"idle", "loop", "returned"})

C7_Witness ==
    /\ F.op = "start" /\ Returned
    /\ SERVICES # <<>>
    /\ MatchingEntries(F.name) = {}
    /\ count = F.before

\* ------------------------------------------------------------------ C8
\* C8 (restart ordering): restart(name) handles the matching entries one at a
\* time in registry order, each by one stop() then one start():
\* stop(e1), start(e1), stop(e2), start(e2), ...
C8_RestartOrdering ==
    F.op = "restart" =>
        LET expected == ExpectedFrom(1, MatchingEntries(F.name), <<"stop", "start">>)
        IN /\ IsPrefix(F.log, expected)
           /\ Returned => F.log = expected
           /\ F.pc = "restarting" => F.log[Len(F.log)] = <<"stop", F.i>>

C8_Witness ==
    /\ F.op = "restart" /\ Returned
    /\ F.log = << <<"stop", 1>>, <<"start", 1>>, <<"stop", 2>>, <<"start", 2>> >>

\* ------------------------------------------------------------------ C9
\* C9 as stated (teardown invariant): after the teardown hook every counter
\* is at the stopped baseline 0.
C9_Original ==
    phase = "exited" => \A i \in Entries : count[i] = 0

\* C9 amended: the teardown hook lowers every counter by exactly 1 from its
\* value when main finished; the result is 0 exactly for the entries whose
\* name received as many manual start calls as manual stop calls.
C9_TeardownDecrement ==
    phase = "exited" =>
        \A i \in Entries :
            /\ count[i] = F.before[i] - 1
            /\ count[i] = 0 <=> Manual("start", name(i)) = Manual("stop", name(i))

C9_Witness ==
    /\ phase = "exited"
    /\ \E i, j \in Entries : count[i] = 0 /\ count[j] # 0
    /\ history # <<>>

\* ----------------------------------------------------------------- C10
\* C10 (stop-tolerant API): a stop(name) that directly follows a stop(name)
\* returns normally and has invoked stop() on every matching entry again,
\* lowering its counter by 1 once more, below zero if need be.
LastTwoAreStops ==
    /\ Len(history) >= 2
    /\ history[Len(history)][1] = "stop"
    /\ history[Len(history) - 1] = history[Len(history)]

C10_StopTwice ==
    (phase = "main" /\ LastTwoAreStops) =>
        /\ F.op = "stop" /\ F.pc \in {"loop", "returned"}
        /\ Returned =>
              /\ F.log = ExpectedFrom(1, MatchingEntries(F.name), <<"stop">>)
              /\ \A i \in MatchingEntries(F.name) :
                    count[i] = F.before[i] - 1 /\ nStop[i] >= 2

C10_Witness ==
    /\ phase = "main" /\ LastTwoAreStops /\ Returned
    /\ \E i \in MatchingEntries(F.name) : count[i] < 0

\* ----------------------------------------------------------------- C11
\* C11 (registry immutability): no step of init, start, stop, restart or
\* deinit changes the registry: its length, its entries, their order and
\* their names are the same from bootstrap to the end of teardown.
C11_RegistryImmutable ==
    [][SERVICES' = SERVICES]_vars

C11_Witness ==
    /\ phase = "exited"
    /\ Len(SERVICES) = 2 /\ name(1) # name(2)
    /\ Len(history) = MaxCalls
    /\ \E k \in 1..Len(history) : history[k][1] = "restart"
    /\ \A i \in Entries : nStop[i] >= 2

\* ----------------------------------------------------------------- C15
\* C15 (counter accounting): between bootstrap and teardown, whenever no call
\* is in progress, the counter of each entry is 1 plus the number of manual
\* start(n) calls minus the number of manual stop(n) calls with n the entry's
\* name; restart calls and calls with other names contribute nothing.
C15_CounterAccounting ==
    (phase = "main" /\ Returned) =>
        \A i \in Entries :
            count[i] = 1 + Manual("start", name(i)) - Manual("stop", name(i))

C15_Witness ==
    /\ phase = "main" /\ Returned
    /\ Len(SERVICES) = 2 /\ name(1) # name(2)
    /\ Manual("restart", name(1)) = 1
    /\ Manual("start", name(2)) = 1
    /\ Manual("stop", name(1)) = 1
    /\ count[1] = 0 /\ count[2] = 2

\* ----------------------------------------------------------------- C16
\* C16 (same-name entries move together): whenever no lifecycle call or hook
\* is in progress, two entries that share a name have equal counters.
C16_SameNameTogether ==
    F.pc \in {"idle", "returned"} =>
        \A i, j \in Entries : name(i) = name(j) => count[i] = count[j]

C16_Witness ==
    /\ phase = "main" /\ Returned
    /\ Len(SERVICES) = 2 /\ name(1) = name(2)
    /\ Manual("stop", name(1)) = 2
    /\ Manual("restart", name(1)) = 1
    /\ count[1] = -1 /\ count[2] = -1

\* ----------------------------------------------------------------- C14
\* C14 (run to completion): every call of start, stop, restart, init and
\* deinit returns; the iterator moves over the entries one by one up to the
\* end of the registry, all the service operations of the call have been made
\* when it returns, and no counter changes while no call is in progress.
InCall == F.pc \in {"loop", "restarting"}

ExpectedLog ==
    CASE F.op = "start"   -> ExpectedFrom(1, MatchingEntries(F.name), <<"start">>)
      [] F.op = "stop"    -> ExpectedFrom(1, MatchingEntries(F.name), <<"stop">>)
      [] F.op = "restart" -> ExpectedFrom(1, MatchingEntries(F.name), <<"stop", "start">>)
      [] F.op = "init"    -> ExpectedFrom(1, Entries, <<"start">>)
      [] F.op = "deinit"  -> ExpectedFrom(1, Entries, <<"stop">>)
      [] OTHER            -> <<>>

C14_RunToCompletion ==
    /\ [](Returned => (F.i = Len(SERVICES) + 1 /\ F.log = ExpectedLog))
    /\ [][InCall => F'.i \in {F.i, F.i + 1}]_vars
    /\ [][~InCall => count' = count]_vars
    /\ InCall ~> Returned

C14_Witness ==
    /\ Returned /\ F.op = "restart"
    /\ Len(SERVICES) = 2 /\ F.i = 3
    /\ Len(F.log) = 2

\* ----------------------------------------------------------------- C12
\* C12 (no isolation): when a start() or stop() fails during a traversal, the
\* traversal ends at that entry: nothing is invoked on the entries after it,
\* whose counters stay as they were at the call, the entries before it keep
\* the calls already made on them, and the function does not resume.
NetEffect ==
    CASE F.op \in {"start", "init"}  -> 1
      [] F.op \in {"stop", "deinit"} -> -1
      [] OTHER                       -> 0

ActedOn(j) == IF F.op \in ApiOps THEN name(j) = F.name ELSE TRUE

C12_NoIsolation ==
    /\ [](F.failed # 0 =>
            /\ F.pc = "panicked" /\ F.i = F.failed
            /\ IsPrefix(F.log, ExpectedLog)
            /\ F.log # <<>> /\ F.log[Len(F.log)][2] = F.failed
            /\ \A j \in Entries :
                  /\ j > F.failed => count[j] = F.before[j]
                  /\ (j < F.failed /\ ActedOn(j)) => count[j] = F.before[j] + NetEffect
                  /\ (j < F.failed /\ ~ActedOn(j)) => count[j] = F.before[j])
    /\ [][F.failed # 0 => (F' = F \/ (F'.op = "deinit" /\ F'.i = 1))]_vars

C12_Witness ==
    /\ F.op = "start" /\ F.failed = 1 /\ F.pc = "panicked"
    /\ Len(SERVICES) = 2 /\ name(1) = F.name /\ name(2) = F.name
    /\ F.log = << <<"start", 1>> >>
    /\ count[2] = F.before[2] /\ nStart[2] = 1

\* ----------------------------------------------------------------- C13
\* C13 (self-synchronizing counter): with two threads calling the lifecycle
\* functions side by side, in every interleaving each counter is the number
\* of start() invocations minus the number of stop() invocations made on its
\* entry, and once both threads have returned it is 1 plus the start(n) calls
\* minus the stop(n) calls for its name: no update is lost.
W == frame[WorkerThread]

Quiet == \A t \in Threads : frame[t].pc \in {"idle", "returned"}

C13_NoLostUpdate ==
    /\ \A i \in Entries : count[i] = TestServiceNew + nStart[i] - nStop[i]
    /\ (phase = "main" /\ Quiet) =>
          \A i \in Entries :
              count[i] = TestServiceNew + 1
                         + Manual("start", name(i)) - Manual("stop", name(i))

C13_Witness ==
    /\ phase = "main" /\ Quiet
    /\ Len(history) = 2
    /\ F.op = "restart" /\ W.op = "start" /\ F.name = W.name
    /\ Len(SERVICES) = 1 /\ name(1) = F.name
    /\ W.before[1] = F.before[1] - 1
    /\ count[1] = F.before[1] + 1

\* ----------------------------------------------------------------- C17
\* C17 (restart is not atomic): while a thread is between the stop() and the
\* start() of a restart, the entry is visibly stopped and nothing holds the
\* other thread back: its stop() on the same entry, the start of the teardown
\* hook and the hook's stop() on that entry can all take effect right there.
Other(t) == CHOOSE u \in Threads : u # t

AtEntry(u, op, i) == InLoop(u, op) /\ frame[u].i = i /\ Selected(u)

C17_RestartNotAtomic ==
    \A t \in Threads :
        frame[t].pc = "restarting" =>
            LET i == frame[t].i IN
            /\ frame[t].log[Len(frame[t].log)] = <<"stop", i>>
            /\ nStop[i] >= 1
            /\ (t = MainThread /\ AtEntry(WorkerThread, "stop", i)) => ENABLED worker_run
            /\ (t = WorkerThread /\ AtEntry(MainThread, "stop", i)) =>
                  ENABLED stop_step(MainThread)
            /\ (t = WorkerThread /\ phase = "main" /\ F.pc \in {"idle", "returned"}) =>
                  ENABLED deinit_race
            /\ (t = WorkerThread /\ AtEntry(MainThread, "deinit", i)) => ENABLED deinit_step

C17_Witness ==
    /\ W.pc = "restarting" /\ W.i = 1
    /\ F.op = "stop" /\ F.name = W.name /\ F.pc = "loop"
    /\ F.before[1] = W.before[1] - 1
    /\ F.log = << <<"stop", 1>> >>
    /\ count[1] = W.before[1] - 2
====
